---- MODULE Spec2Model ----
(***************************************************************************)
(* Model of the RLE codec of SmolBig/RLE-Engine: run collection, the four  *)
(* packed node formats, the analytic efficiency estimator, format          *)
(* selection, table building, the deflate writer and the inflate reader.   *)
(*                                                                         *)
(* Byte ranges (file views) are kept in run-length form: a byte range is a *)
(* sequence of segments <<value, count, step>> (count >= 1, step 0 or 1)    *)
(* that denotes the bytes value, value + step, value + 2 step, ... (modulo *)
(* 256) of each segment in turn.  All operators on byte ranges (ByteAt,    *)
(* Slice, Overwrite, ...) are defined on the denoted byte string, so a     *)
(* 65 KB file costs a handful of segments.                                 *)
(*                                                                         *)
(* TLC integers are 32 bit signed.  Every quantity of the model stays      *)
(* below 2^31 - 1; the one program constant above it (2^32 - 1, the        *)
(* largest long length of the 16x16 format) is represented by IntCap.      *)
(***************************************************************************)
EXTENDS Integers, Sequences, FiniteSets, TLC

\* ------------------------------------------------------------------ bounds
\* Largest number of (gap, run) blocks of a generated input file.
MaxBlocks == 3
\* Largest number of trailing non-run bytes of a generated input file.
MaxTail == 1

\* ------------------------------------------------------- byte-range algebra
\* Byte j (0-based) of a segment <<v, n, d>>: v, v+d, v+2d, ... modulo 256.
SegByte(s, j) == (s[1] + s[3] * j) % 256

\* A segment without its first j bytes (j < n), and its first j bytes (j >= 1).
SegDrop(s, j) == <<SegByte(s, j), s[2] - j, s[3]>>

SegTake(s, j) == <<s[1], j, s[3]>>

\* Whether all bytes of a segment are equal.
SegConstant(s) == s[3] = 0 \/ s[2] = 1

\* Number of segments up to which a range of segments is walked one by one;
\* longer ranges are halved first.
LinearSpan == 16

\* Number of bytes of the segments lo..hi of a byte range.
RECURSIVE SizeRange(_, _, _)
SizeRange(b, lo, hi) ==
  IF lo > hi THEN 0
  ELSE IF hi - lo < LinearSpan THEN b[lo][2] + SizeRange(b, lo + 1, hi)
  ELSE LET mid == (lo + hi) \div 2
       IN  SizeRange(b, lo, mid) + SizeRange(b, mid + 1, hi)

\* Number of bytes of a byte range.
Size(b) == SizeRange(b, 1, Len(b))

\* The segment among lo..hi that holds the byte at offset k of that range,
\* and the offset of the byte inside the segment.
RECURSIVE LocateRange(_, _, _, _)
LocateRange(b, lo, hi, k) ==
  IF lo = hi THEN [idx |-> lo, off |-> k]
  ELSE IF hi - lo < LinearSpan
  THEN IF k < b[lo][2] THEN [idx |-> lo, off |-> k]
       ELSE LocateRange(b, lo + 1, hi, k - b[lo][2])
  ELSE LET mid == (lo + hi) \div 2
           left == SizeRange(b, lo, mid)
       IN  IF k < left THEN LocateRange(b, lo, mid, k)
           ELSE LocateRange(b, mid + 1, hi, k - left)

Locate(b, k) == LocateRange(b, 1, Len(b), k)

\* The byte at 0-based offset k (k < Size(b)).
ByteAt(b, k) == LET p == Locate(b, k) IN SegByte(b[p.idx], p.off)

\* The n bytes from offset o of segment idx on, as a sequence of byte values.
RECURSIVE BytesFrom(_, _, _, _)
BytesFrom(b, idx, o, n) ==
  IF n = 0 THEN <<>>
  ELSE IF o >= b[idx][2] THEN BytesFrom(b, idx + 1, 0, n)
  ELSE <<SegByte(b[idx], o)>> \o BytesFrom(b, idx, o + 1, n - 1)

\* The n bytes at offset k (k + n <= Size(b)), as a sequence of byte values.
BytesAt(b, k, n) ==
  IF n = 0 THEN <<>> ELSE LET p == Locate(b, k) IN BytesFrom(b, p.idx, p.off, n)

\* A byte range without its first k bytes, and its first k bytes.
Drop(b, k) ==
  IF k <= 0 THEN b
  ELSE IF k >= Size(b) THEN <<>>
  ELSE LET p == Locate(b, k)
       IN  <<SegDrop(b[p.idx], p.off)>> \o SubSeq(b, p.idx + 1, Len(b))

Take(b, k) ==
  IF k <= 0 THEN <<>>
  ELSE IF k >= Size(b) THEN b
  ELSE LET p == Locate(b, k)
       IN  SubSeq(b, 1, p.idx - 1)
             \o (IF p.off = 0 THEN <<>> ELSE <<SegTake(b[p.idx], p.off)>>)

\* The bytes [from, to) of a byte range (0-based offsets, clipped to the range).
Slice(b, from, to) == Take(Drop(b, from), to - from)

\* count copies of the byte value v (std::fill over count bytes).
Fill(v, count) == IF count <= 0 THEN <<>> ELSE << <<v, count, 0>> >>

\* A sequence of single bytes as a byte range.
RECURSIVE BytesRange(_, _, _)
BytesRange(s, lo, hi) ==
  IF lo > hi THEN <<>>
  ELSE IF lo = hi THEN << <<s[lo], 1, 0>> >>
  ELSE LET mid == (lo + hi) \div 2
       IN  BytesRange(s, lo, mid) \o BytesRange(s, mid + 1, hi)

Bytes(s) == BytesRange(s, 1, Len(s))

\* Concatenation that merges the two segments at the seam when both are
\* constant and of the same value.
Join(x, y) ==
  IF x = <<>> THEN y
  ELSE IF y = <<>> THEN x
  ELSE LET a == x[Len(x)]
           c == y[1]
       IN  IF SegConstant(a) /\ SegConstant(c) /\ a[1] = c[1]
           THEN SubSeq(x, 1, Len(x) - 1) \o << <<a[1], a[2] + c[2], 0>> >>
                  \o SubSeq(y, 2, Len(y))
           ELSE x \o y

RECURSIVE NormRange(_, _, _)
NormRange(b, lo, hi) ==
  IF lo > hi THEN <<>>
  ELSE IF lo = hi THEN <<b[lo]>>
  ELSE LET mid == (lo + hi) \div 2
       IN  Join(NormRange(b, lo, mid), NormRange(b, mid + 1, hi))

\* The same byte string with adjacent constant segments of one value merged.
Norm(b) == NormRange(b, 1, Len(b))

\* The offsets at which the segments of a byte range start.
Cuts(b) == {SizeRange(b, 1, i - 1) : i \in 1..Len(b)}

\* Whether two byte ranges denote the same byte string.  Between two
\* consecutive cuts both ranges are arithmetic progressions of step 0 or 1,
\* which agree iff their first two bytes agree.
SameBytes(a, b) ==
  /\ Size(a) = Size(b)
  /\ \A c \in Cuts(a) \cup Cuts(b) :
       /\ ByteAt(a, c) = ByteAt(b, c)
       /\ c + 1 < Size(a) => ByteAt(a, c + 1) = ByteAt(b, c + 1)

\* Writing the bytes src into buf at offset off (std::copy into a view),
\* clipped to the end of buf.
Overwrite(buf, off, src) ==
  LET n == Size(buf)
      room == IF off >= n THEN 0 ELSE n - off
      w == IF Size(src) <= room THEN src ELSE Slice(src, 0, room)
  IN  Norm(Slice(buf, 0, off) \o w \o Slice(buf, off + Size(w), n))

\* ------------------------------------------------------------ node formats
\* NodeFormat enumerators (RLE_Shared.h), by name.
Formats == {"P8L8", "P8L16", "P16L8", "P16L16"}

INEFFICIENT == "INEFFICIENT"

\* The largest TLC integer, standing for every program constant >= 2^31 - 1.
IntCap == 2147483647

RECURSIVE Pow2(_)
Pow2(n) ==
  IF n = 0 THEN 1
  ELSE IF n = 8 THEN 256
  ELSE IF n = 16 THEN 65536
  ELSE 2 * Pow2(n - 1)

\* bitsizeof<PrefixType>() and bitsizeof<LengthType>() of the four node types.
PrefixBits(f) == IF f \in {"P8L8", "P8L16"} THEN 8 ELSE 16

LengthBits(f) == IF f \in {"P8L8", "P16L8"} THEN 8 ELSE 16

\* Variant of LengthMax in which every length field is one byte wide.
LengthMax_Byte(f) == 255

\* PackedNode::PrefixMax, PackedNode::LengthMax.
PrefixMax(f) == Pow2(PrefixBits(f)) - 1

LengthMax(f) == Pow2(LengthBits(f)) - 1

\* sizeof(NodeType) under #pragma pack(1): prefix, length and one value byte.
SizeOfNode(f) == PrefixBits(f) \div 8 + LengthBits(f) \div 8 + 1

\* The enumerator value of a format, stored in Header::magic[3].
FormatByte(f) ==
  CASE f = "P8L8" -> 17 [] f = "P8L16" -> 18 [] f = "P16L8" -> 33
    [] f = "P16L16" -> 34 [] OTHER -> 35

\* std::numeric_limits<uint8_t>::max()
ByteMax == 255

\* sizeof(Header) under #pragma pack(1): char[4], uint64_t, uint32_t.
SizeOfHeader == 16

\* sizeof(Node8x8), the collector's threshold.
SizeOfNode8x8 == 3

\* maxSkipLength = PrefixMax | (byteMax << bitsizeof<PrefixType>())
MaxSkipLength(f) == PrefixMax(f) + ByteMax * Pow2(PrefixBits(f))

\* maxLongLength = LengthMax | (PrefixMax << bitsizeof<LengthType>())
MaxLongLength(f) ==
  IF PrefixBits(f) + LengthBits(f) >= 32 THEN IntCap
  ELSE LengthMax(f) + PrefixMax(f) * Pow2(LengthBits(f))

\* PackedNode::set / the three-argument constructor.
Node(p, l, v) == [prefix |-> p, length |-> l, value |-> v]

\* Variant of BeSkipNode that never saturates at maxSkipLength.
BeSkipNode_Unsaturated(f, totalPrefix) ==
  [thrown |-> totalPrefix < PrefixMax(f),
   node |-> Node(totalPrefix % Pow2(PrefixBits(f)), 0,
                 (totalPrefix \div Pow2(PrefixBits(f))) % 256),
   used |-> totalPrefix]

\* PackedNode::beSkipNode: the node made and the amount of prefix consumed.
\* ("thrown" stands for the runtime_error of an under-loaded prefix.)
BeSkipNode(f, totalPrefix) ==
  IF totalPrefix < PrefixMax(f)
  THEN [thrown |-> TRUE, node |-> Node(0, 0, 0), used |-> 0]
  ELSE IF totalPrefix > MaxSkipLength(f)
  THEN [thrown |-> FALSE, node |-> Node(PrefixMax(f), 0, ByteMax),
        used |-> MaxSkipLength(f)]
  ELSE [thrown |-> FALSE,
        node |-> Node(totalPrefix % Pow2(PrefixBits(f)), 0,
                      (totalPrefix \div Pow2(PrefixBits(f))) % 256),
        used |-> totalPrefix]

\* Variant of BeSignalNode that leaves a value other than 0 in the node.
BeSignalNode_Valued(f, prefixSize) == Node(prefixSize % Pow2(PrefixBits(f)), 0, 1)

\* PackedNode::beSignalNode: the argument is converted to PrefixType.
BeSignalNode(f, prefixSize) == Node(prefixSize % Pow2(PrefixBits(f)), 0, 0)

\* Variant of BeLongNode that never saturates at maxLongLength.
BeLongNode_Unsaturated(f, longLength, runValue) ==
  [node |-> Node((longLength \div Pow2(LengthBits(f))) % Pow2(PrefixBits(f)),
                 longLength % Pow2(LengthBits(f)), runValue),
   used |-> longLength]

\* PackedNode::beLongNode: the node made and the amount of length consumed.
\* (The runtime_error of line 73 is constructed but never thrown.)
BeLongNode(f, longLength, runValue) ==
  IF longLength > MaxLongLength(f)
  THEN [node |-> Node(PrefixMax(f), LengthMax(f), runValue),
        used |-> MaxLongLength(f)]
  ELSE [node |-> Node((longLength \div Pow2(LengthBits(f))) % Pow2(PrefixBits(f)),
                      longLength % Pow2(LengthBits(f)), runValue),
        used |-> longLength]

\* Variant of GetLongLength that leaves out the prefix field.
GetLongLength_LengthOnly(f, n) == n.length

\* PackedNode::getLongLength = length | (prefix << bitsizeof<LengthType>())
GetLongLength(f, n) == n.length + n.prefix * Pow2(LengthBits(f))

\* PackedNode::getSkipLength = prefix | (value << bitsizeof<PrefixType>())
GetSkipLength(f, n) == n.prefix + n.value * Pow2(PrefixBits(f))

\* struct Run
Run(p, l, v) == [prefix |-> p, length |-> l, value |-> v]

\* -------------------------------------------------------------- parseRun
\* First loop of parseRun: skip nodes until the prefix is within range.
RECURSIVE ParseSkips(_, _, _)
ParseSkips(f, prefix, out) ==
  IF prefix > PrefixMax(f)
  THEN LET s == BeSkipNode(f, prefix)
       IN  ParseSkips(f, prefix - s.used, Append(out, s.node))
  ELSE [prefix |-> prefix, out |-> out]

\* Second loop of parseRun: a signal node (its argument cast to uint8_t) and
\* a long node, until the length is within range.
RECURSIVE ParseLongs(_, _, _, _, _)
ParseLongs(f, prefix, length, value, out) ==
  IF length > LengthMax(f)
  THEN LET l == BeLongNode(f, length, value)
       IN  ParseLongs(f, prefix, length - l.used, value,
                      out \o <<BeSignalNode(f, prefix % 256), l.node>>)
  ELSE [length |-> length, out |-> out]

\* parseRun: the nodes appended to outVec for one run.
ParseRun(f, run, outVec) ==
  LET s == ParseSkips(f, run.prefix, outVec)
      l == ParseLongs(f, s.prefix, run.length, run.value, s.out)
  IN  IF l.length > SizeOfNode(f)
      THEN Append(l.out, Node(s.prefix % Pow2(PrefixBits(f)),
                              l.length % Pow2(LengthBits(f)), run.value))
      ELSE l.out

\* parseRunSet: parseRun over a block of runs, in order.
RECURSIVE ParseRunSetFrom(_, _, _, _)
ParseRunSetFrom(f, runs, i, nodes) ==
  IF i > Len(runs) THEN nodes
  ELSE ParseRunSetFrom(f, runs, i + 1, ParseRun(f, runs[i], nodes))

ParseRunSet(f, runs) == ParseRunSetFrom(f, runs, 1, <<>>)

\* ------------------------------------------------------------- estimator
\* Variant of LongNodeMax that leaves out the shift of LengthMax.
LongNodeMax_NoShift(f) == LengthMax(f) + PrefixMax(f)

\* longNodeMax of calculateRunEfficiencyByFormat:
\* (LengthMax << bitsizeof<PrefixType>()) | numeric_limits<PrefixType>::max()
LongNodeMax(f) ==
  IF PrefixBits(f) + LengthBits(f) >= 32 THEN IntCap
  ELSE LengthMax(f) * Pow2(PrefixBits(f)) + PrefixMax(f)

\* calculateRunEfficiencyByFormat
CalculateRunEfficiencyByFormat(f, run) ==
  LET skipNodes ==
        IF run.prefix > PrefixMax(f)
        THEN (run.prefix \div MaxSkipLength(f))
             + (IF run.prefix % MaxSkipLength(f) > PrefixMax(f) THEN 1 ELSE 0)
        ELSE 0
      over == run.length > LengthMax(f)
      maxLongs == IF over THEN run.length \div LongNodeMax(f) ELSE 0
      remainder == IF over THEN run.length % LongNodeMax(f) ELSE 0
      extra == over /\ remainder > LengthMax(f)
      longNodes == maxLongs * 2 + (IF extra THEN 2 ELSE 0)
      longBytes == maxLongs * LongNodeMax(f) + (IF extra THEN remainder ELSE 0)
      length == run.length - longBytes
      std == length > SizeOfNode(f)
      nodesGenerated == skipNodes + longNodes + (IF std THEN 1 ELSE 0)
      lengthProcessed == longBytes + (IF std THEN length ELSE 0)
  IN  lengthProcessed - nodesGenerated * SizeOfNode(f)

\* calculateFormatEfficiency
RECURSIVE CalculateFormatEfficiencyFrom(_, _, _)
CalculateFormatEfficiencyFrom(f, runs, i) ==
  IF i > Len(runs) THEN 0
  ELSE CalculateRunEfficiencyByFormat(f, runs[i])
       + CalculateFormatEfficiencyFrom(f, runs, i + 1)

CalculateFormatEfficiency(f, runs) == CalculateFormatEfficiencyFrom(f, runs, 1)

\* measureEfficiency (main.cpp): run bytes carried by the nodes of a table
\* minus the byte size of the table.
RECURSIVE MeasureFrom(_, _, _, _)
MeasureFrom(f, nodes, i, longNode) ==
  IF i > Len(nodes) THEN 0
  ELSE IF longNode
  THEN GetLongLength(f, nodes[i]) + MeasureFrom(f, nodes, i + 1, FALSE)
  ELSE nodes[i].length
       + MeasureFrom(f, nodes, i + 1, nodes[i].length = 0 /\ nodes[i].value = 0)

MeasureEfficiency(f, nodes) ==
  MeasureFrom(f, nodes, 1, FALSE) - Len(nodes) * SizeOfNode(f)

\* ---------------------------------------------------------- selectFormat
\* The unordered_map efficiencies of selectFormat.
Efficiencies(runs) ==
  [P8L8 |-> CalculateFormatEfficiency("P8L8", runs),
   P8L16 |-> CalculateFormatEfficiency("P8L16", runs),
   P16L8 |-> CalculateFormatEfficiency("P16L8", runs),
   P16L16 |-> CalculateFormatEfficiency("P16L16", runs)]

\* Variant of Better that compares with zero instead of the best so far.
Better_Positive(e, bestEfficiency) == e > 0

\* if(p.second > bestEfficiency): whether an entry replaces the best so far.
Better(e, bestEfficiency) == e > bestEfficiency

\* Variant of NoSelection that starts below zero.
NoSelection_Negative == [format |-> INEFFICIENT, efficiency |-> -1]

\* NodeFormat bestFormat = INEFFICIENT; int64_t bestEfficiency = 0;
NoSelection == [format |-> INEFFICIENT, efficiency |-> 0]

\* The loop of selectFormat over the map, visited in the order given;
\* best = [format, efficiency] so far.
RECURSIVE SelectLoop(_, _, _, _)
SelectLoop(efficiencies, order, i, best) ==
  IF i > Len(order) THEN best
  ELSE SelectLoop(efficiencies, order, i + 1,
         IF Better(efficiencies[order[i]], best.efficiency)
         THEN [format |-> order[i], efficiency |-> efficiencies[order[i]]]
         ELSE best)

\* The iteration orders an unordered_map of the four formats may have.
IterationOrders ==
  {o \in [1..4 -> Formats] : \A i, j \in 1..4 : i # j => o[i] # o[j]}

\* selectFormat for one iteration order of the map.
SelectFormat(runs, order) ==
  SelectLoop(Efficiencies(runs), order, 1, NoSelection)

\* ----------------------------------------------------------- collectRuns
\* Inner while loop of collectRuns: the number of consecutive bytes equal to
\* value, counted from offset o of segment k.
RECURSIVE MatchLength(_, _, _, _)
MatchLength(data, k, o, value) ==
  IF k > Len(data) THEN 0
  ELSE IF SegByte(data[k], o) # value THEN 0
  ELSE IF data[k][3] = 0
  THEN (data[k][2] - o) + MatchLength(data, k + 1, 0, value)
  ELSE IF data[k][2] - o = 1
  THEN 1 + MatchLength(data, k + 1, 0, value)
  ELSE IF SegByte(data[k], o + 1) # value THEN 1
  ELSE 1 + MatchLength(data, k, o + 1, value)

\* Variant of RecordsRun that also records a span of sizeof(Node8x8) bytes.
RecordsRun_AtLeast(length) == length >= SizeOfNode8x8

\* if(run.length > sizeof(Node8x8)): whether a span is recorded as a run.
RecordsRun(length) == length > SizeOfNode8x8

\* Variant of RunPrefix that counts the prefix from the start of the data.
RunPrefix_Absolute(position, prevTailPos) == position

\* run.prefix = position - prevTailPos
RunPrefix(position, prevTailPos) == position - prevTailPos

\* Outer for loop of collectRuns with i = position.  Inside a stepping
\* segment every byte but the last is a span of length 1, which the loop
\* passes without recording; these iterations are taken together.
RECURSIVE CollectFrom(_, _, _, _)
CollectFrom(data, position, prevTailPos, runs) ==
  IF position >= Size(data) THEN runs
  ELSE LET p == Locate(data, position)
           seg == data[p.idx]
           value == SegByte(seg, p.off)
           length == MatchLength(data, p.idx, p.off, value)
       IN  IF seg[3] = 1 /\ seg[2] - p.off >= 2 /\ seg[2] <= 256
           THEN CollectFrom(data, position + (seg[2] - p.off - 1), prevTailPos, runs)
           ELSE IF RecordsRun(length)
           THEN CollectFrom(data, position + length, position + length,
                            Append(runs, Run(RunPrefix(position, prevTailPos), length, value)))
           ELSE CollectFrom(data, position + length, prevTailPos, runs)

CollectRuns(data) == CollectFrom(data, 0, 0, <<>>)

\* ------------------------------------------------------ generateRLETable
\* std::async worker count of generateRLETable.
ThreadCount == 4

\* The spans handed to the workers: threadCount - 1 blocks of
\* runs.size() / threadCount runs, and a last block with the rest.
\* Variant of RunBlocks whose last block has runsDist runs like the others.
RunBlocks_NoRemainder(runs) ==
  LET runsDist == Len(runs) \div ThreadCount
  IN  [i \in 1..ThreadCount |->
         SubSeq(runs, (i - 1) * runsDist + 1, i * runsDist)]

RunBlocks(runs) ==
  LET runsDist == Len(runs) \div ThreadCount
  IN  [i \in 1..ThreadCount |->
         IF i < ThreadCount
         THEN SubSeq(runs, (i - 1) * runsDist + 1, i * runsDist)
         ELSE SubSeq(runs, (ThreadCount - 1) * runsDist + 1, Len(runs))]

\* The futures are joined in block order and their vectors concatenated.
RECURSIVE JoinBlocks(_, _, _)
JoinBlocks(f, blocks, i) ==
  IF i > Len(blocks) THEN <<>>
  ELSE ParseRunSet(f, blocks[i]) \o JoinBlocks(f, blocks, i + 1)

GenerateRLETable(f, runs) == JoinBlocks(f, RunBlocks(runs), 1)

\* ----------------------------------------------------------------- RLETable
\* A size_t as its four 16-bit limbs, least significant first.
RECURSIVE Limbs(_, _)
Limbs(x, n) ==
  IF n = 0 THEN <<>> ELSE <<x % 65536>> \o Limbs(x \div 65536, n - 1)

\* (uint32_t)size: the low 32 bits.
AsUInt32(size) == <<size[1], size[2], 0, 0>>

\* std::numeric_limits<uint32_t>::max()
UInt32Max == <<65535, 65535, 0, 0>>

\* a > b for two sizes, decided at the most significant limb that differs.
RECURSIVE LimbsGreater(_, _, _)
LimbsGreater(a, b, i) ==
  IF i = 0 THEN FALSE
  ELSE IF a[i] # b[i] THEN a[i] > b[i]
  ELSE LimbsGreater(a, b, i - 1)

\* Variant of TableTooLarge that compares the converted count.
TableTooLarge_Converted(size) == LimbsGreater(AsUInt32(size), UInt32Max, 4)

\* nodes.size() > std::numeric_limits<uint32_t>::max()
TableTooLarge(size) == LimbsGreater(size, UInt32Max, 4)

\* ------------------------------------------------- packed little-endian
\* Variant of LittleEndian that stores the low byte only.
LittleEndian_LowByte(x, n) ==
  <<x % 256>> \o SubSeq(<<0, 0, 0, 0, 0, 0, 0>>, 1, n - 1)

\* The n bytes of an unsigned integer, least significant first.
RECURSIVE LittleEndian(_, _)
LittleEndian(x, n) ==
  IF n = 0 THEN <<>> ELSE <<x % 256>> \o LittleEndian(x \div 256, n - 1)

\* The unsigned integer whose bytes, least significant first, are s[i..j].
RECURSIVE FromLittleEndian(_, _, _)
FromLittleEndian(s, i, j) ==
  IF i > j THEN 0 ELSE s[i] + 256 * FromLittleEndian(s, i + 1, j)

\* The unsigned integer stored in the n bytes at offset off of a byte range.
ReadLittleEndian(data, off, n) == FromLittleEndian(BytesAt(data, off, n), 1, n)

\* Variant of HeaderBytes that leaves the format byte of the magic unset.
HeaderBytes_NoFormat(f, decompressedLength, tableNodeCount) ==
  <<82, 76, 69, 0>> \o LittleEndian(decompressedLength, 8)
     \o LittleEndian(tableNodeCount, 4)

\* struct Header as written by deflateFile: "RLE", the format byte,
\* decompressedLength (uint64_t) and tableNodeCount (uint32_t).
HeaderBytes(f, decompressedLength, tableNodeCount) ==
  <<82, 76, 69, FormatByte(f)>> \o LittleEndian(decompressedLength, 8)
     \o LittleEndian(tableNodeCount, 4)

\* The bytes of one packed node.
NodeBytes(f, n) ==
  LittleEndian(n.prefix, PrefixBits(f) \div 8)
    \o LittleEndian(n.length, LengthBits(f) \div 8) \o <<n.value>>

\* RLETable::nodesAsBytes
RECURSIVE NodesAsBytes(_, _, _)
NodesAsBytes(f, nodes, i) ==
  IF i > Len(nodes) THEN <<>>
  ELSE NodeBytes(f, nodes[i]) \o NodesAsBytes(f, nodes, i + 1)

\* The node read through reinterpret_cast<const NodeType*> at byte offset off.
NodeAt(f, data, off) ==
  LET p == PrefixBits(f) \div 8
      l == LengthBits(f) \div 8
      s == BytesAt(data, off, p + l + 1)
  IN  Node(FromLittleEndian(s, 1, p), FromLittleEndian(s, p + 1, p + l), s[p + l + 1])

\* Header fields read back from a mapped file.
HeaderDecompressedLength(data) == ReadLittleEndian(data, 4, 8)

HeaderTableNodeCount(data) == ReadLittleEndian(data, 12, 4)

\* Variant of MagicOk that accepts every file.
MagicOk_Skipped(data) == TRUE

\* Header::checkMagic: whether the first three bytes are "RLE".
MagicOk(data) == BytesAt(data, 0, 3) = <<82, 76, 69>>

\* Variant of FormatOfByte that takes every other byte for P8L8.
FormatOfByte_Default(b) ==
  IF \E f \in Formats : FormatByte(f) = b
  THEN CHOOSE f \in Formats : FormatByte(f) = b
  ELSE "P8L8"

\* The format whose enumerator value is the byte b, if any.
FormatOfByte(b) ==
  IF \E f \in Formats : FormatByte(f) = b
  THEN CHOOSE f \in Formats : FormatByte(f) = b
  ELSE "UNKNOWN"

\* ---------------------------------------------------------- extractTable
\* extractTable over the nodeCount nodes stored at byte offset off; acc is
\* the prefix accumulated in `run`.  A signal node in the last slot makes the
\* loop read the slot after the table (ub).
RECURSIVE ExtractFrom(_, _, _, _, _, _, _)
ExtractFrom(f, data, off, nodeCount, i, acc, outVec) ==
  IF i > nodeCount THEN [runs |-> outVec, ub |-> FALSE]
  ELSE LET n == NodeAt(f, data, off + (i - 1) * SizeOfNode(f))
       IN  IF n.length = 0
           THEN IF n.value = 0
                THEN IF i + 1 > nodeCount
                     THEN [runs |-> outVec, ub |-> TRUE]
                     ELSE LET m == NodeAt(f, data, off + i * SizeOfNode(f))
                          IN  ExtractFrom(f, data, off, nodeCount, i + 2, 0,
                                Append(outVec,
                                  Run(acc + n.prefix, GetLongLength(f, m), m.value)))
                ELSE ExtractFrom(f, data, off, nodeCount, i + 1,
                                 acc + GetSkipLength(f, n), outVec)
           ELSE ExtractFrom(f, data, off, nodeCount, i + 1, 0,
                            Append(outVec, Run(acc + n.prefix, n.length, n.value)))

ExtractTable(f, data, off, nodeCount) ==
  ExtractFrom(f, data, off, nodeCount, 1, 0, <<>>)

\* ------------------------------------------------------------ input files
\* Byte values of the runs of a generated input, by block parity.
RunValues == <<65, 66>>

\* The blocks of a generated input: <<gap, length>> is a gap of that many
\* non-run bytes followed by that many equal bytes.
BlockKinds ==
  {<<0, 3>>, <<0, 4>>, <<0, 256>>, <<1, 65539>>, <<256, 4>>, <<256, 256>>,
   <<256, 65539>>}

\* g bytes without two equal neighbours: 1, 2, 3, ... (modulo 256).
Filler(g) == IF g <= 0 THEN <<>> ELSE << <<1, g, 1>> >>

\* The input made of the blocks (gap filler, then a run) and a filler tail.
RECURSIVE BlocksBytes(_, _)
BlocksBytes(blocks, i) ==
  IF i > Len(blocks) THEN <<>>
  ELSE Filler(blocks[i][1]) \o Fill(RunValues[(i % 2) + 1], blocks[i][2])
         \o BlocksBytes(blocks, i + 1)

MkInput(blocks, tail) == BlocksBytes(blocks, 1) \o Filler(tail)

\* Inputs of one repeated byte, and inputs of a few long runs: 300 bytes 0x00
\* followed by 0x61 0x62; 10 bytes 0x00, 5 bytes 0xAA and 300000 bytes 0x11.
ScenarioInputs ==
  {Fill(65, n) : n \in {5, 255, 1000, 65535, 65536, 65538, 65539}}
    \cup {Fill(0, 300) \o Bytes(<<97, 98>>),
          Fill(0, 10) \o Fill(170, 5) \o Fill(17, 300000)}

Inputs ==
  {MkInput(b, t) : b \in UNION {[1..k -> BlockKinds] : k \in 0..MaxBlocks},
                   t \in 0..MaxTail}
    \cup ScenarioInputs


\* ------------------------------------------------------------------ state
VARIABLES
  pc,           \* position in deflateFile, then inflateFile
  err,          \* what() of the exception that ended the call, or "none"
  ub,           \* TRUE once an out-of-range access has gone through
  inData,       \* the input file (inView of deflateFile)
  runs,         \* std::vector<Run> runs of deflateFile
  efficiencies, \* the unordered_map of selectFormat
  format,       \* selection.first
  efficiency,   \* selection.second
  table,        \* the nodes of the RLETable
  nodeCount,    \* RLETable::nodeCount
  outLen,       \* length of the compressed file (0: not created)
  outData,      \* the compressed file (outView of deflateFile)
  inIter,       \* inIter of deflateData / inflateFile (byte offset)
  outIter,      \* outIter of deflateData / inflateFile (byte offset)
  longNode,     \* longNode of deflateData
  nodeIdx,      \* 1-based index of the next node / logical run of the loop
  nodesLen,     \* size of the span `nodes` of deflateData
  infFormat,    \* format read by inflateFile
  logicalRuns,  \* table of inflateFile (extractTableByFormat)
  infLen,       \* length of the reinflated file (0: not created)
  infData,      \* the reinflated file (outView of inflateFile)
  testNodes,    \* nodes11 .. nodes22 of efficiencyCalcTest, by format
  measured,     \* m11 .. m22 of efficiencyCalcTest, by format
  runBlocks,    \* runBlocks of generateRLETable
  futures,      \* futures of generateRLETable: "running" or the worker's nodes
  completed,    \* the workers that have returned, in the order they did
  futIdx,       \* 1-based index of the next future of the joining loop
  nodesSize,    \* nodes.size() seen by the RLETable constructor, as limbs
  castCount,    \* RLETable::nodeCount as initialised there, as limbs
  curPrefix,    \* uint64_t prefix of parseRun
  curLength,    \* uint64_t length of parseRun
  returned      \* the value the last beSkipNode or beLongNode returned

vars == <<pc, err, ub, inData, runs, efficiencies, format, efficiency, table, nodeCount,
          outLen, outData, inIter, outIter, longNode, nodeIdx, nodesLen,
          infFormat, logicalRuns, infLen, infData, testNodes, measured,
          runBlocks, futures, completed, futIdx, nodesSize, castCount,
          curPrefix, curLength, returned>>

deflateVars == <<runs, efficiencies, format, efficiency, table, nodeCount>>

outVars == <<outLen, outData>>

cursorVars == <<inIter, outIter, longNode, nodeIdx, nodesLen>>

inflateVars == <<infFormat, logicalRuns, infLen, infData>>

testVars == <<testNodes, measured>>

parseVars == <<curPrefix, curLength, returned>>

buildVars == <<runBlocks, futures, completed, futIdx, nodesSize, castCount, parseVars>>

\* generateRLETable has not been entered.
BuildIdle ==
  /\ runBlocks = <<>>
  /\ futures = <<>>
  /\ completed = <<>>
  /\ futIdx = 1
  /\ nodesSize = <<0, 0, 0, 0>>
  /\ castCount = <<0, 0, 0, 0>>
  /\ curPrefix = 0
  /\ curLength = 0
  /\ returned = 0

\* Bytes an out-of-range read may deliver.
UBBytes == {0, 255}

\* The bytes [from, to) read from data; bytes past the end of data read as fill.
ReadBytes(data, from, to, fill) ==
  LET s == Slice(data, from, to)
  IN  s \o Fill(fill, (to - from) - Size(s))

InitRest ==
  /\ err = "none"
  /\ ub = FALSE
  /\ runs = <<>>
  /\ efficiencies = Efficiencies(<<>>)
  /\ format = INEFFICIENT
  /\ efficiency = 0
  /\ table = <<>>
  /\ nodeCount = 0
  /\ outLen = 0
  /\ outData = <<>>
  /\ inIter = 0
  /\ outIter = 0
  /\ longNode = FALSE
  /\ nodeIdx = 1
  /\ nodesLen = 0
  /\ infFormat = "UNKNOWN"
  /\ logicalRuns = <<>>
  /\ infLen = 0
  /\ infData = <<>>
  /\ testNodes = [P8L8 |-> <<>>, P8L16 |-> <<>>, P16L8 |-> <<>>, P16L16 |-> <<>>]
  /\ measured = [P8L8 |-> 0, P8L16 |-> 0, P16L8 |-> 0, P16L16 |-> 0]
  /\ BuildIdle

Init ==
  /\ pc = "deflateFile"
  /\ inData \in Inputs
  /\ InitRest

\* --------------------------------------------------------------- deflateFile
\* what() of the exception of MappedFile::getView for a view length of zero.
ZeroLengthView == "MappedFile cannot generate a View object with a length of zero."

\* what() of the exception of deflateFile for NodeFormat::INEFFICIENT.
Inefficient == "Cannot deflate this file efficiently."

\* MappedFile::getView(offset, viewLength): a view length of zero throws,
\* otherwise the view covers viewLength bytes from offset.
GetView(offset, viewLength) ==
  IF viewLength = 0
  THEN [thrown |-> TRUE, from |-> offset, to |-> offset]
  ELSE [thrown |-> FALSE, from |-> offset, to |-> offset + viewLength]

\* MappedFile inMap(OPEN); inMap.getView(0, inMap.size()): getView throws on
\* a view length of zero.
OpenInput ==
  /\ pc = "deflateFile"
  /\ IF GetView(0, Size(inData)).thrown
     THEN pc' = "failed" /\ err' = ZeroLengthView
     ELSE pc' = "collectRuns" /\ err' = err
  /\ UNCHANGED <<testVars, buildVars, ub, inData, deflateVars, outVars, cursorVars, inflateVars>>

\* std::vector<Run> runs = collectRuns(inView);
DoCollectRuns ==
  /\ pc = "collectRuns"
  /\ runs' = CollectRuns(inData)
  /\ pc' = "selectFormat"
  /\ UNCHANGED <<testVars, buildVars, err, ub, inData, efficiencies, format, efficiency, table,
                 nodeCount, outVars, cursorVars, inflateVars>>

\* selectFormat, first half: the map of the four predicted savings.
BuildEfficiencies ==
  /\ pc = "selectFormat"
  /\ efficiencies' = Efficiencies(runs)
  /\ pc' = "selectLoop"
  /\ UNCHANGED <<testVars, buildVars, err, ub, inData, runs, format, efficiency, table, nodeCount,
                 outVars, cursorVars, inflateVars>>

\* selectFormat, second half: the loop over the map, whose iteration order
\* is not specified; auto selection = selectFormat(runs).
DoSelectFormat ==
  /\ pc = "selectLoop"
  /\ \E selection \in
         {SelectLoop(efficiencies, order, 1, NoSelection) :
            order \in IterationOrders} :
       /\ format' = selection.format
       /\ efficiency' = selection.efficiency
  /\ pc' = "generateRLETable"
  /\ UNCHANGED <<testVars, buildVars, err, ub, inData, runs, efficiencies, table, nodeCount, outVars,
                 cursorVars, inflateVars>>

\* case NodeFormat::INEFFICIENT: throw
RejectInefficient ==
  /\ pc = "generateRLETable"
  /\ format = INEFFICIENT
  /\ pc' = "failed"
  /\ err' = Inefficient
  /\ UNCHANGED <<testVars, buildVars, ub, inData, deflateVars, outVars, cursorVars, inflateVars>>

\* table = generateRLETable<NodeType>(format, efficiency, runs); the RLETable
\* constructor converts nodes.size() to uint32_t and throws when it is larger.
DoGenerateRLETable ==
  /\ pc = "generateRLETable"
  /\ format # INEFFICIENT
  /\ LET nodes == GenerateRLETable(format, runs)
     IN  /\ table' = nodes
         /\ nodeCount' = Len(nodes)
         /\ IF TableTooLarge(Limbs(Len(nodes), 4))
            THEN pc' = "failed" /\ err' = "RLE table too large."
            ELSE pc' = "createOutput" /\ err' = err
  /\ UNCHANGED <<testVars, buildVars, ub, inData, runs, efficiencies, format, efficiency, outVars,
                 cursorVars, inflateVars>>

\* compressedLength = inMap.size() - table.efficiency + sizeof(Header);
\* MappedFile outMap(CREATE, compressedLength): a new file of that length.
CreateOutput ==
  /\ pc = "createOutput"
  /\ LET compressedLength == Size(inData) - efficiency + SizeOfHeader
     IN  IF compressedLength = 0
         THEN /\ pc' = "failed"
              /\ err' = "Forgot to provide desired length when creating a file for mapping."
              /\ UNCHANGED outVars
         ELSE /\ pc' = "writeHeader"
              /\ err' = err
              /\ outLen' = compressedLength
              /\ outData' = Fill(0, compressedLength)
  /\ UNCHANGED <<testVars, buildVars, ub, inData, deflateVars, cursorVars, inflateVars>>

\* new(outView.data()) Header; setNodeFormat; decompressedLength; tableNodeCount
WriteHeader ==
  /\ pc = "writeHeader"
  /\ outData' = Overwrite(outData, 0,
        Bytes(HeaderBytes(format, Size(inData), nodeCount)))
  /\ pc' = "copyTable"
  /\ UNCHANGED <<testVars, buildVars, err, ub, inData, deflateVars, outLen, cursorVars, inflateVars>>

\* std::copy(table.nodesAsBytes.begin(), table.nodesAsBytes.end(), outIter);
\* then deflateData is entered: the span `nodes` over the table in the output
\* view (header->tableNodeCount nodes) and the two cursors are set up.
CopyTable ==
  /\ pc = "copyTable"
  /\ outData' = Overwrite(outData, SizeOfHeader, Bytes(NodesAsBytes(format, table, 1)))
  /\ inIter' = 0
  /\ outIter' = SizeOfHeader + HeaderTableNodeCount(outData) * SizeOfNode(format)
  /\ longNode' = FALSE
  /\ nodeIdx' = 1
  /\ nodesLen' = HeaderTableNodeCount(outData)
  /\ pc' = "deflateData"
  /\ UNCHANGED <<testVars, buildVars, err, ub, inData, deflateVars, outLen, inflateVars>>

\* --------------------------------------------------------------- deflateData
\* The node the loop of deflateData is at, read from the output view.
CurNode == NodeAt(format, outData, SizeOfHeader + (nodeIdx - 1) * SizeOfNode(format))

\* size_t prefix of the loop body: the node's prefix, or its skip length.
NodePrefix(f, node) ==
  IF node.length = 0 /\ node.value # 0
  THEN GetSkipLength(f, node) ELSE node.prefix

\* Whether std::copy(inIter, inTail, outIter) of prefix bytes stays inside
\* both views.
CopyInRange(prefix) ==
  prefix = 0 \/ (inIter + prefix <= Size(inData) /\ outIter + prefix <= outLen)

\* One iteration of the loop on a long node: the run is stepped over.
DeflateLongNode ==
  /\ pc = "deflateData"
  /\ nodeIdx <= nodesLen
  /\ longNode
  /\ inIter' = inIter + GetLongLength(format, CurNode)
  /\ longNode' = FALSE
  /\ nodeIdx' = nodeIdx + 1
  /\ UNCHANGED <<testVars, buildVars, pc, err, ub, inData, deflateVars, outVars, outIter, nodesLen,
                 inflateVars>>

\* One iteration of the loop on a standard, skip or signal node.
DeflateNode ==
  /\ pc = "deflateData"
  /\ nodeIdx <= nodesLen
  /\ ~longNode
  /\ LET node == CurNode
         prefix == NodePrefix(format, node)
     IN  /\ CopyInRange(prefix)
         /\ outData' = Overwrite(outData, outIter, Slice(inData, inIter, inIter + prefix))
         /\ outIter' = outIter + prefix
         /\ inIter' = inIter + prefix + node.length
         /\ longNode' = (node.length = 0 /\ node.value = 0)
  /\ nodeIdx' = nodeIdx + 1
  /\ UNCHANGED <<testVars, buildVars, pc, err, ub, inData, deflateVars, outLen, nodesLen, inflateVars>>

\* The same iteration when the copy leaves a view (undefined behaviour): the
\* process is terminated, or the access goes through (bytes past the input
\* read as some value, bytes past the output are not part of the file).
DeflateNodeOverrun ==
  /\ pc = "deflateData"
  /\ nodeIdx <= nodesLen
  /\ ~longNode
  /\ LET node == CurNode
         prefix == NodePrefix(format, node)
     IN  /\ ~CopyInRange(prefix)
         /\ \E crash \in BOOLEAN, fill \in UBBytes :
              IF crash
              THEN /\ pc' = "crashed"
                   /\ UNCHANGED <<ub, outData, cursorVars>>
              ELSE /\ pc' = pc
                   /\ ub' = TRUE
                   /\ outData' = Overwrite(outData, outIter,
                                   ReadBytes(inData, inIter, inIter + prefix, fill))
                   /\ outIter' = outIter + prefix
                   /\ inIter' = inIter + prefix + node.length
                   /\ longNode' = (node.length = 0 /\ node.value = 0)
                   /\ nodeIdx' = nodeIdx + 1
                   /\ nodesLen' = nodesLen
  /\ UNCHANGED <<testVars, buildVars, err, inData, deflateVars, outLen, inflateVars>>

\* Whether std::copy(inIter, inView.end(), outIter) stays inside both views.
TailInRange ==
  /\ inIter <= Size(inData)
  /\ (inIter = Size(inData) \/ outIter + (Size(inData) - inIter) <= outLen)

\* std::copy(inIter, inView.end(), outIter) after the loop; deflateFile
\* returns.  outIter takes the position std::copy returns, the end of the
\* bytes written.
DeflateTail ==
  /\ pc = "deflateData"
  /\ nodeIdx > nodesLen
  /\ TailInRange
  /\ outData' = Overwrite(outData, outIter, Slice(inData, inIter, Size(inData)))
  /\ outIter' = outIter + (Size(inData) - inIter)
  /\ inIter' = Size(inData)
  /\ pc' = "deflated"
  /\ UNCHANGED <<testVars, buildVars, err, ub, inData, deflateVars, outLen, longNode, nodeIdx,
                 nodesLen, inflateVars>>

\* The final copy with inIter past the end of the input or with more bytes
\* than the output has room for (undefined behaviour).
DeflateTailOverrun ==
  /\ pc = "deflateData"
  /\ nodeIdx > nodesLen
  /\ ~TailInRange
  /\ \E crash \in BOOLEAN :
       IF crash
       THEN /\ pc' = "crashed"
            /\ UNCHANGED <<ub, outData, inIter, outIter>>
       ELSE /\ pc' = "deflated"
            /\ ub' = TRUE
            /\ outData' = Overwrite(outData, outIter, Slice(inData, inIter, Size(inData)))
            /\ outIter' = IF inIter <= Size(inData)
                          THEN outIter + (Size(inData) - inIter) ELSE outIter
            /\ inIter' = IF inIter <= Size(inData) THEN Size(inData) ELSE inIter
  /\ UNCHANGED <<testVars, buildVars, err, inData, deflateVars, outLen, longNode, nodeIdx, nodesLen,
                 inflateVars>>

\* --------------------------------------------------------------- inflateFile
\* inflateFile up to the table: the view of the compressed file, checkMagic,
\* the switch on the format and extractTableByFormat.  A signal node in the
\* last slot of the table makes extractTable read past the table.
InflateExtract ==
  /\ pc \in {"deflated", "inflateFile"}
  /\ LET f == FormatOfByte(ByteAt(outData, 3))
         count == HeaderTableNodeCount(outData)
         ex == IF f \in Formats
               THEN ExtractTable(f, outData, SizeOfHeader, count)
               ELSE [runs |-> <<>>, ub |-> FALSE]
     IN  \E crash \in BOOLEAN :
           /\ crash => (MagicOk(outData) /\ f \in Formats /\ ex.ub)
           /\ IF ~MagicOk(outData)
              THEN /\ pc' = "failed"
                   /\ err' = "Attempted to reinflate a non RLE file."
                   /\ UNCHANGED <<ub, inIter, infFormat, logicalRuns>>
              ELSE IF f \notin Formats
              THEN /\ pc' = "failed"
                   /\ err' = "Failed to switch by format type."
                   /\ UNCHANGED <<ub, inIter, infFormat, logicalRuns>>
              ELSE /\ pc' = IF crash THEN "crashed" ELSE "inflateCreate"
                   /\ err' = err
                   /\ ub' = (ub \/ ex.ub)
                   /\ infFormat' = f
                   /\ logicalRuns' = ex.runs
                   /\ inIter' = SizeOfHeader + count * SizeOfNode(f)
  /\ UNCHANGED <<testVars, buildVars, inData, deflateVars, outVars, outIter, longNode, nodeIdx,
                 nodesLen, infLen, infData>>

\* MappedFile outMap(CREATE, header->decompressedLength): a new file of that
\* length; the constructor throws on a length of zero.
InflateCreate ==
  /\ pc = "inflateCreate"
  /\ LET decompressedLength == HeaderDecompressedLength(outData)
     IN  IF decompressedLength = 0
         THEN /\ pc' = "failed"
              /\ err' = "Forgot to provide desired length when creating a file for mapping."
              /\ UNCHANGED <<infLen, infData>>
         ELSE /\ pc' = "inflateData"
              /\ err' = err
              /\ infLen' = decompressedLength
              /\ infData' = Fill(0, decompressedLength)
  /\ outIter' = 0
  /\ nodeIdx' = 1
  /\ UNCHANGED <<testVars, buildVars, ub, inData, deflateVars, outVars, inIter, longNode, nodesLen,
                 infFormat, logicalRuns>>

\* Whether the copy of the prefix of a logical run and the fill of the run
\* stay inside the views.
RunInRange(run) ==
  /\ run.prefix = 0 \/ inIter + run.prefix <= outLen
  /\ run.prefix + run.length = 0
       \/ outIter + run.prefix + run.length <= infLen

\* One iteration of the loop of inflateFile: copy the prefix, fill the run.
InflateRun ==
  /\ pc = "inflateData"
  /\ nodeIdx <= Len(logicalRuns)
  /\ LET node == logicalRuns[nodeIdx]
     IN  /\ RunInRange(node)
         /\ infData' = Overwrite(infData, outIter,
                         Slice(outData, inIter, inIter + node.prefix)
                           \o Fill(node.value, node.length))
         /\ inIter' = inIter + node.prefix
         /\ outIter' = outIter + node.prefix + node.length
  /\ nodeIdx' = nodeIdx + 1
  /\ UNCHANGED <<testVars, buildVars, pc, err, ub, inData, deflateVars, outVars, longNode, nodesLen,
                 infFormat, logicalRuns, infLen>>

\* The same iteration when the copy or the fill leaves a view.
InflateRunOverrun ==
  /\ pc = "inflateData"
  /\ nodeIdx <= Len(logicalRuns)
  /\ LET node == logicalRuns[nodeIdx]
     IN  /\ ~RunInRange(node)
         /\ \E crash \in BOOLEAN, fill \in UBBytes :
              IF crash
              THEN /\ pc' = "crashed"
                   /\ UNCHANGED <<ub, infData, inIter, outIter, nodeIdx>>
              ELSE /\ pc' = pc
                   /\ ub' = TRUE
                   /\ infData' = Overwrite(infData, outIter,
                                   ReadBytes(outData, inIter, inIter + node.prefix, fill)
                                     \o Fill(node.value, node.length))
                   /\ inIter' = inIter + node.prefix
                   /\ outIter' = outIter + node.prefix + node.length
                   /\ nodeIdx' = nodeIdx + 1
  /\ UNCHANGED <<testVars, buildVars, err, inData, deflateVars, outVars, longNode, nodesLen,
                 infFormat, logicalRuns, infLen>>

\* Whether std::copy(inIter, inView.end(), outIter) stays inside both views.
InflateTailInRange ==
  /\ inIter <= outLen
  /\ (inIter = outLen \/ outIter + (outLen - inIter) <= infLen)

\* The copy of the trailing bytes and the length check of inflateFile.
InflateTail ==
  /\ pc = "inflateData"
  /\ nodeIdx > Len(logicalRuns)
  /\ InflateTailInRange
  /\ infData' = Overwrite(infData, outIter, Slice(outData, inIter, outLen))
  /\ outIter' = outIter + (outLen - inIter)
  /\ inIter' = outLen
  /\ IF outIter + (outLen - inIter) # infLen
     THEN pc' = "failed" /\ err' = "Inflated file does not match expected length."
     ELSE pc' = "inflated" /\ err' = err
  /\ UNCHANGED <<testVars, buildVars, ub, inData, deflateVars, outVars, longNode, nodeIdx, nodesLen,
                 infFormat, logicalRuns, infLen>>

\* The trailing copy with inIter past the end of the compressed file or with
\* more bytes than the reinflated file has room for.
InflateTailOverrun ==
  /\ pc = "inflateData"
  /\ nodeIdx > Len(logicalRuns)
  /\ ~InflateTailInRange
  /\ \E crash \in BOOLEAN :
       LET end == IF inIter <= outLen THEN outIter + (outLen - inIter) ELSE outIter
       IN  IF crash
           THEN /\ pc' = "crashed"
                /\ UNCHANGED <<err, ub, infData, inIter, outIter>>
           ELSE /\ ub' = TRUE
                /\ infData' = Overwrite(infData, outIter, Slice(outData, inIter, outLen))
                /\ outIter' = end
                /\ inIter' = IF inIter <= outLen THEN outLen ELSE inIter
                /\ IF end # infLen
                   THEN pc' = "failed" /\ err' = "Inflated file does not match expected length."
                   ELSE pc' = "inflated" /\ err' = err
  /\ UNCHANGED <<testVars, buildVars, inData, deflateVars, outVars, longNode, nodeIdx, nodesLen,
                 infFormat, logicalRuns, infLen>>

\* ------------------------------------------------------------ specification
Next ==
  \/ OpenInput
  \/ DoCollectRuns
  \/ BuildEfficiencies
  \/ DoSelectFormat
  \/ RejectInefficient
  \/ DoGenerateRLETable
  \/ CreateOutput
  \/ WriteHeader
  \/ CopyTable
  \/ DeflateLongNode
  \/ DeflateNode
  \/ DeflateNodeOverrun
  \/ DeflateTail
  \/ DeflateTailOverrun
  \/ InflateExtract
  \/ InflateCreate
  \/ InflateRun
  \/ InflateRunOverrun
  \/ InflateTail
  \/ InflateTailOverrun

Spec == Init /\ [][Next]_vars


\* ------------------------------------------- inflateFile on any mapped file
\* Largest number of verbatim bytes behind the table of a file given to
\* inflateFile.
MaxVerbatim == 3

\* The table of such a file: none, standard nodes, a skip node, a signal and a long node,
\* and a signal node in the last slot.
InflateTables ==
  {<<>>,
   <<Node(0, 8, 65)>>,
   <<Node(2, 4, 65)>>,
   <<Node(4, 4, 66)>>,
   <<Node(1, 4, 65), Node(1, 3, 66)>>,
   <<Node(1, 0, 1), Node(1, 4, 65)>>,
   <<Node(2, 0, 0), Node(0, 8, 65)>>,
   <<Node(0, 0, 0)>>}

\* The file: struct Header, the packed nodes and the verbatim bytes.
InflateFile(magic, formatByte, decompressedLength, nodes, verbatim) ==
  LET f == IF formatByte \in {FormatByte(g) : g \in Formats}
           THEN CHOOSE g \in Formats : FormatByte(g) = formatByte
           ELSE "P8L8"
  IN  Norm(Bytes(magic \o <<formatByte>> \o LittleEndian(decompressedLength, 8)
                   \o LittleEndian(Len(nodes), 4) \o NodesAsBytes(f, nodes, 1))
             \o Filler(verbatim))

\* The files: the first three bytes are "RLE", "XLE" or "RL\\0", the fourth is
\* one of the four formats, 0 or the value of INEFFICIENT, and
\* decompressedLength is 0, 6, 8 or 10.
InflateFiles ==
  {InflateFile(m, b, d, n, v) :
     m \in {<<82, 76, 69>>, <<88, 76, 69>>, <<82, 76, 0>>},
     b \in {17, 18, 33, 34, 0, 35},
     d \in {0, 6, 8, 10},
     n \in InflateTables, v \in 0..MaxVerbatim}

\* inflateFile is called on one of these files.
InitInflate ==
  /\ pc = "inflateFile"
  /\ outData \in InflateFiles
  /\ outLen = Size(outData)
  /\ inData = <<>>
  /\ err = "none"
  /\ ub = FALSE
  /\ runs = <<>>
  /\ efficiencies = Efficiencies(<<>>)
  /\ format = INEFFICIENT
  /\ efficiency = 0
  /\ table = <<>>
  /\ nodeCount = 0
  /\ inIter = 0
  /\ outIter = 0
  /\ longNode = FALSE
  /\ nodeIdx = 1
  /\ nodesLen = 0
  /\ infFormat = "UNKNOWN"
  /\ logicalRuns = <<>>
  /\ infLen = 0
  /\ infData = <<>>
  /\ testNodes = [P8L8 |-> <<>>, P8L16 |-> <<>>, P16L8 |-> <<>>, P16L16 |-> <<>>]
  /\ measured = [P8L8 |-> 0, P8L16 |-> 0, P16L8 |-> 0, P16L16 |-> 0]
  /\ BuildIdle

NextInflate ==
  \/ InflateExtract
  \/ InflateCreate
  \/ InflateRun
  \/ InflateRunOverrun
  \/ InflateTail
  \/ InflateTailOverrun

SpecInflate == InitInflate /\ [][NextInflate]_vars


\* ------------------------------------------------- parseRun, step by step
\* Largest number of saturated skip nodes, and of saturated long nodes, that
\* the run given to parseRun needs.
MaxOverflows == 2

\* The prefixes of the runs given to parseRun<NodeType>: around 0, PrefixMax
\* and the multiples of maxSkipLength.
ParsePrefixes(f) ==
  {k * MaxSkipLength(f) + d :
     k \in 0..MaxOverflows,
     d \in {0, 1, PrefixMax(f), PrefixMax(f) + 1, PrefixMax(f) + 45}}

\* Their lengths: more than 3 bytes, around sizeof(NodeType), LengthMax and
\* the multiples of maxLongLength (which for Node16x16 has none in range).
ParseLengths(f) ==
  LET ks == IF PrefixBits(f) + LengthBits(f) >= 32 THEN {0} ELSE 0..MaxOverflows
      ls == {k * MaxLongLength(f) + d :
               k \in ks,
               d \in {0, 1, 3, 4, 5, 6, LengthMax(f), LengthMax(f) + 1,
                      LengthMax(f) + 7}}
  IN  {l \in ls : l > SizeOfNode8x8}

\* parseRun<NodeType>(run, outVec) is entered with an empty outVec; line 10
\* has copied the prefix of the run.
InitParseRun ==
  /\ pc = "skipLoop"
  /\ format \in Formats
  /\ runs \in {<<Run(p, l, v)>> :
                p \in ParsePrefixes(format), l \in ParseLengths(format),
                v \in {0, 65}}
  /\ curPrefix = runs[1].prefix
  /\ curLength = 0
  /\ returned = 0
  /\ table = <<>>
  /\ runBlocks = <<>>
  /\ futures = <<>>
  /\ completed = <<>>
  /\ futIdx = 1
  /\ nodesSize = <<0, 0, 0, 0>>
  /\ castCount = <<0, 0, 0, 0>>
  /\ inData = <<>>
  /\ err = "none"
  /\ ub = FALSE
  /\ efficiencies = Efficiencies(<<>>)
  /\ efficiency = 0
  /\ nodeCount = 0
  /\ outLen = 0
  /\ outData = <<>>
  /\ inIter = 0
  /\ outIter = 0
  /\ longNode = FALSE
  /\ nodeIdx = 1
  /\ nodesLen = 0
  /\ infFormat = "UNKNOWN"
  /\ logicalRuns = <<>>
  /\ infLen = 0
  /\ infData = <<>>
  /\ testNodes = [P8L8 |-> <<>>, P8L16 |-> <<>>, P16L8 |-> <<>>, P16L16 |-> <<>>]
  /\ measured = [P8L8 |-> 0, P8L16 |-> 0, P16L8 |-> 0, P16L16 |-> 0]

\* What parseRun and extractTable leave alone.
parseRest ==
  <<testVars, err, inData, runs, efficiencies, format, efficiency, nodeCount,
    outVars, cursorVars, infFormat, infLen, infData, runBlocks, futures,
    completed, futIdx, nodesSize, castCount>>

\* One iteration of the first loop: a skip node is pushed and the prefix
\* reduced by what beSkipNode returns.
PushSkipNode ==
  /\ pc = "skipLoop"
  /\ curPrefix > PrefixMax(format)
  /\ LET s == BeSkipNode(format, curPrefix)
     IN  IF s.thrown
         THEN /\ pc' = "failed"
              /\ err' = "Tried to make a skip node when the prefix is not overloaded."
              /\ UNCHANGED <<table, curPrefix, returned>>
         ELSE /\ table' = Append(table, s.node)
              /\ curPrefix' = curPrefix - s.used
              /\ returned' = s.used
              /\ UNCHANGED <<pc, err>>
  /\ UNCHANGED <<testVars, ub, inData, runs, efficiencies, format, efficiency,
                 nodeCount, outVars, cursorVars, inflateVars, runBlocks, futures,
                 completed, futIdx, nodesSize, castCount, curLength>>

\* The first loop is left; line 17 copies the length of the run.
EnterLongLoop ==
  /\ pc = "skipLoop"
  /\ curPrefix <= PrefixMax(format)
  /\ curLength' = runs[1].length
  /\ pc' = "longLoop"
  /\ UNCHANGED <<parseRest, ub, table, logicalRuns, curPrefix, returned>>

\* One iteration of the second loop: a signal node made from (uint8_t)prefix
\* and a long node are pushed, and the length is reduced by what beLongNode
\* returns.
PushLongNode ==
  /\ pc = "longLoop"
  /\ curLength > LengthMax(format)
  /\ LET l == BeLongNode(format, curLength, runs[1].value)
     IN  /\ table' = table \o <<BeSignalNode(format, curPrefix % 256), l.node>>
         /\ curLength' = curLength - l.used
         /\ returned' = l.used
  /\ UNCHANGED <<parseRest, pc, ub, logicalRuns, curPrefix>>

\* Variant of PushStandardNode that pushes the standard node whatever length
\* is left.
PushStandardNode_Always ==
  /\ pc = "longLoop"
  /\ curLength <= LengthMax(format)
  /\ table' = Append(table, Node(curPrefix % Pow2(PrefixBits(format)),
                                 curLength % Pow2(LengthBits(format)),
                                 runs[1].value))
  /\ pc' = "parsed"
  /\ UNCHANGED <<parseRest, ub, logicalRuns, parseVars>>

\* The second loop is left; a standard node is pushed unless the length left
\* is at most sizeof(NodeType), and parseRun returns.
PushStandardNode ==
  /\ pc = "longLoop"
  /\ curLength <= LengthMax(format)
  /\ table' = IF curLength > SizeOfNode(format)
               THEN Append(table, Node(curPrefix % Pow2(PrefixBits(format)),
                                       curLength % Pow2(LengthBits(format)),
                                       runs[1].value))
               ELSE table
  /\ pc' = "parsed"
  /\ UNCHANGED <<parseRest, ub, logicalRuns, parseVars>>

\* extractTable<NodeType> over the nodes of the run.
ExtractNodes ==
  /\ pc = "parsed"
  /\ LET ex == ExtractTable(format, Bytes(NodesAsBytes(format, table, 1)), 0,
                            Len(table))
     IN  /\ logicalRuns' = ex.runs
         /\ ub' = ex.ub
  /\ pc' = "extracted"
  /\ UNCHANGED <<parseRest, table, parseVars>>

NextParseRun ==
  \/ PushSkipNode
  \/ EnterLongLoop
  \/ PushLongNode
  \/ PushStandardNode
  \/ ExtractNodes

SpecParseRun == InitParseRun /\ [][NextParseRun]_vars


\* ------------------------------------------- the constructor of RLETable
\* The table sizes given to the constructor, between 0 and 2^64 - 1 nodes:
\* every limb is 0, 1 or 65535.
TableSizes == {<<a, b, c, d>> : a, b, c, d \in {0, 1, 65535}}

\* RLETable(format, efficiency, nodes): nodeCount is initialised with the
\* converted size, then the size is compared with the largest uint32_t.
ConstructRLETable ==
  /\ pc = "RLETable"
  /\ castCount' = AsUInt32(nodesSize)
  /\ IF TableTooLarge(nodesSize)
     THEN pc' = "failed" /\ err' = "RLE table too large."
     ELSE pc' = "generated" /\ err' = err
  /\ UNCHANGED <<testVars, ub, inData, deflateVars, outVars, cursorVars, inflateVars,
                 runBlocks, futures, completed, futIdx, nodesSize, parseVars>>

\* The constructor is entered with a vector of one of these sizes (of which
\* only the size is represented).
InitTableSize ==
  /\ pc = "RLETable"
  /\ nodesSize \in TableSizes
  /\ runBlocks = <<>>
  /\ futures = <<>>
  /\ completed = <<>>
  /\ futIdx = 1
  /\ castCount = <<0, 0, 0, 0>>
  /\ curPrefix = 0
  /\ curLength = 0
  /\ returned = 0
  /\ inData = <<>>
  /\ err = "none"
  /\ ub = FALSE
  /\ runs = <<>>
  /\ efficiencies = Efficiencies(<<>>)
  /\ format \in Formats
  /\ efficiency = 0
  /\ table = <<>>
  /\ nodeCount = 0
  /\ outLen = 0
  /\ outData = <<>>
  /\ inIter = 0
  /\ outIter = 0
  /\ longNode = FALSE
  /\ nodeIdx = 1
  /\ nodesLen = 0
  /\ infFormat = "UNKNOWN"
  /\ logicalRuns = <<>>
  /\ infLen = 0
  /\ infData = <<>>
  /\ testNodes = [P8L8 |-> <<>>, P8L16 |-> <<>>, P16L8 |-> <<>>, P16L16 |-> <<>>]
  /\ measured = [P8L8 |-> 0, P8L16 |-> 0, P16L8 |-> 0, P16L16 |-> 0]

\* ------------------------------------ generateRLETable and its four workers
\* Largest number of runs given to generateRLETable.
MaxBuildRuns == 9

\* The i-th run given to it: every run has a value of its own, and runs of
\* one node alternate with runs that need more than one node in every format.
BuildRun(i, first) ==
  IF (i + first) % 2 = 0 THEN Run(0, 6, 64 + i) ELSE Run(300, 70000, 64 + i)

BuildRunLists ==
  {[i \in 1..k |-> BuildRun(i, first)] : k \in 0..MaxBuildRuns, first \in 0..1}

\* Lines 134-152: the runs are split into runBlocks and one asynchronous
\* parseRunSet is launched per block.
LaunchWorkers ==
  /\ pc = "generateRLETable"
  /\ runBlocks' = RunBlocks(runs)
  /\ futures' = [i \in 1..ThreadCount |-> [ready |-> FALSE, nodes |-> <<>>]]
  /\ completed' = <<>>
  /\ futIdx' = 1
  /\ table' = <<>>
  /\ pc' = "join"
  /\ UNCHANGED <<testVars, err, ub, inData, runs, efficiencies, format, efficiency,
                 nodeCount, outVars, cursorVars, inflateVars, nodesSize, castCount,
                 parseVars>>

\* The worker of block i returns from parseRunSet; its future becomes ready.
WorkerReturns(i) ==
  /\ pc = "join"
  /\ ~futures[i].ready
  /\ futures' = [futures EXCEPT
                   ![i] = [ready |-> TRUE, nodes |-> ParseRunSet(format, runBlocks[i])]]
  /\ completed' = Append(completed, i)
  /\ UNCHANGED <<testVars, pc, err, ub, inData, deflateVars, outVars, cursorVars,
                 inflateVars, runBlocks, futIdx, nodesSize, castCount, parseVars>>

\* One iteration of the loop of lines 156-159: fut.get() waits for the
\* worker, then its nodes are appended.  After the last future the
\* constructor of RLETable is called with the nodes.
JoinFuture ==
  /\ pc = "join"
  /\ futIdx <= Len(futures)
  /\ futures[futIdx].ready
  /\ table' = table \o futures[futIdx].nodes
  /\ futIdx' = futIdx + 1
  /\ IF futIdx = Len(futures)
     THEN pc' = "RLETable" /\ nodesSize' = Limbs(Len(table'), 4)
     ELSE UNCHANGED <<pc, nodesSize>>
  /\ UNCHANGED <<testVars, err, ub, inData, runs, efficiencies, format, efficiency,
                 nodeCount, outVars, cursorVars, inflateVars, runBlocks, futures,
                 completed, castCount, parseVars>>

\* generateRLETable<NodeType>(format, efficiency, runs) is called.
InitTableBuild ==
  /\ pc = "generateRLETable"
  /\ runs \in BuildRunLists
  /\ format \in Formats
  /\ BuildIdle
  /\ inData = <<>>
  /\ err = "none"
  /\ ub = FALSE
  /\ efficiencies = Efficiencies(<<>>)
  /\ efficiency = 0
  /\ table = <<>>
  /\ nodeCount = 0
  /\ outLen = 0
  /\ outData = <<>>
  /\ inIter = 0
  /\ outIter = 0
  /\ longNode = FALSE
  /\ nodeIdx = 1
  /\ nodesLen = 0
  /\ infFormat = "UNKNOWN"
  /\ logicalRuns = <<>>
  /\ infLen = 0
  /\ infData = <<>>
  /\ testNodes = [P8L8 |-> <<>>, P8L16 |-> <<>>, P16L8 |-> <<>>, P16L16 |-> <<>>]
  /\ measured = [P8L8 |-> 0, P8L16 |-> 0, P16L8 |-> 0, P16L16 |-> 0]

NextTableBuild ==
  \/ LaunchWorkers
  \/ \E i \in 1..ThreadCount : WorkerReturns(i)
  \/ JoinFuture
  \/ ConstructRLETable

SpecTableBuild == InitTableBuild /\ [][NextTableBuild]_vars

NextTableSize == ConstructRLETable

SpecTableSize == InitTableSize /\ [][NextTableSize]_vars


\* ------------------------------------------------------- efficiencyCalcTest
\* Largest number of runs of a run list given to the test.
MaxRuns == 2

\* Prefixes and lengths of the runs given to the test: around PrefixMax,
\* LengthMax, sizeof(NodeType) and the largest skip and long lengths.
TestPrefixes == {0, 255, 256, 65536}

TestLengths == {4, 5, 6, 255, 256, 65535, 65539, 131075}

\* The prefix and the length of each run of a run list of the test.
TestShapes == UNION {[1..k -> TestPrefixes \X TestLengths] : k \in 0..MaxRuns}

\* The run list of a shape: as collectRuns returns them, neighbouring runs
\* differ in value.
RECURSIVE TestRunList(_, _)
TestRunList(shape, i) ==
  IF i > Len(shape) THEN <<>>
  ELSE <<Run(shape[i][1], shape[i][2], RunValues[(i % 2) + 1])>>
         \o TestRunList(shape, i + 1)

InitTest ==
  /\ pc = "efficiencyCalcTest"
  /\ inData = <<>>
  /\ err = "none"
  /\ ub = FALSE
  /\ \E shape \in TestShapes : runs = TestRunList(shape, 1)
  /\ efficiencies = Efficiencies(<<>>)
  /\ format = INEFFICIENT
  /\ efficiency = 0
  /\ table = <<>>
  /\ nodeCount = 0
  /\ outLen = 0
  /\ outData = <<>>
  /\ inIter = 0
  /\ outIter = 0
  /\ longNode = FALSE
  /\ nodeIdx = 1
  /\ nodesLen = 0
  /\ infFormat = "UNKNOWN"
  /\ logicalRuns = <<>>
  /\ infLen = 0
  /\ infData = <<>>
  /\ testNodes = [P8L8 |-> <<>>, P8L16 |-> <<>>, P16L8 |-> <<>>, P16L16 |-> <<>>]
  /\ measured = [P8L8 |-> 0, P8L16 |-> 0, P16L8 |-> 0, P16L16 |-> 0]
  /\ BuildIdle

\* c11 .. c22 = calculateFormatEfficiency<NodeType>(runs)
TestCalculate ==
  /\ pc = "efficiencyCalcTest"
  /\ efficiencies' = Efficiencies(runs)
  /\ pc' = "parseRuns"
  /\ UNCHANGED <<err, ub, inData, runs, format, efficiency, table, nodeCount,
                 outVars, cursorVars, inflateVars, testVars, buildVars>>

\* for(auto& run : runs) parseRun(run, nodes11 .. nodes22)
TestParse ==
  /\ pc = "parseRuns"
  /\ testNodes' = [P8L8 |-> ParseRunSet("P8L8", runs),
                   P8L16 |-> ParseRunSet("P8L16", runs),
                   P16L8 |-> ParseRunSet("P16L8", runs),
                   P16L16 |-> ParseRunSet("P16L16", runs)]
  /\ pc' = "measureEfficiency"
  /\ UNCHANGED <<err, ub, inData, deflateVars, outVars, cursorVars, inflateVars,
                 measured, buildVars>>

\* m11 .. m22 = measureEfficiency(nodes11 .. nodes22)
TestMeasure ==
  /\ pc = "measureEfficiency"
  /\ measured' = [P8L8 |-> MeasureEfficiency("P8L8", testNodes["P8L8"]),
                  P8L16 |-> MeasureEfficiency("P8L16", testNodes["P8L16"]),
                  P16L8 |-> MeasureEfficiency("P16L8", testNodes["P16L8"]),
                  P16L16 |-> MeasureEfficiency("P16L16", testNodes["P16L16"])]
  /\ pc' = "compared"
  /\ UNCHANGED <<err, ub, inData, deflateVars, outVars, cursorVars, inflateVars,
                 testNodes, buildVars>>

NextTest == TestCalculate \/ TestParse \/ TestMeasure

SpecEfficiencyTest == InitTest /\ [][NextTest]_vars


\* ------------------------------------------------------------------ claims
\* The order of the formats by record size.
FormatOrder == <<"P8L8", "P8L16", "P16L8", "P16L16">>

\* C1: when inflateFile has run on the output of a deflateFile that did not
\* fail, the reinflated file has the length and the bytes of the input.
RoundTripIdentity ==
  pc = "inflated" => (infLen = Size(inData) /\ SameBytes(infData, inData))

\* C2: while deflateData runs the output cursor stays inside the allocated
\* range, and when deflateData has finished the cursor is exactly at the end
\* of the range, whose length is the header, the table and the bytes copied.
PredictedSizeIsActualSize ==
  /\ pc = "deflateData" => outIter <= outLen
  /\ pc = "deflated" =>
       /\ outLen = Size(inData) - efficiency + SizeOfHeader
       /\ outIter = outLen

\* C3: for each format the saving computed by calculateFormatEfficiency
\* equals the saving measureEfficiency finds on the nodes parseRun builds.
EstimatorAgreement ==
  pc = "compared" => \A f \in Formats : efficiencies[f] = measured[f]

\* C3 witness: the comparison of a run list with a run that needs skip
\* nodes and long nodes in the 8x8 format and has a positive saving.
EstimatorAgreementWitness ==
  /\ pc = "compared"
  /\ Len(runs) = MaxRuns
  /\ runs[1].prefix > PrefixMax("P8L8")
  /\ runs[1].length > MaxLongLength("P8L8")
  /\ measured["P8L8"] > 0
  /\ measured["P8L8"] # measured["P16L16"]

\* selectFormat has returned (format and efficiency hold its result).
SelectFormatReturned ==
  /\ pc \notin {"deflateFile", "collectRuns", "selectFormat", "selectLoop"}
  /\ err # ZeroLengthView

\* C4: a format returned by selectFormat comes with a strictly positive
\* saving, which is the predicted saving of that format and is not below the
\* predicted saving of any other format.
FormatOptimality ==
  (pc = "generateRLETable" /\ format # INEFFICIENT) =>
     /\ efficiency > 0
     /\ efficiency = CalculateFormatEfficiency(format, runs)
     /\ \A f \in Formats : efficiency >= CalculateFormatEfficiency(f, runs)

\* C4 witness: a format other than the first is returned while another
\* format has a smaller positive saving.
FormatOptimalityWitness ==
  /\ pc = "generateRLETable"
  /\ format \in Formats \ {"P8L8"}
  /\ \E f \in Formats : efficiencies[f] > 0 /\ efficiencies[f] < efficiency

\* C5: no format that comes before the returned format in the order P8L8,
\* P8L16, P16L8, P16L16 has the same saving as the returned format.
DeterministicTieBreak ==
  (SelectFormatReturned /\ format # INEFFICIENT) =>
     \A i, j \in 1..4 :
        (FormatOrder[j] = format /\ i < j) =>
           CalculateFormatEfficiency(FormatOrder[i], runs) # efficiency

\* C6: selectFormat returns INEFFICIENT exactly when no predicted saving is
\* positive, and then deflateFile ends with the Inefficient error without
\* having created or written an output file.
InefficientSentinel ==
  SelectFormatReturned =>
     /\ pc = "generateRLETable" =>
          (format = INEFFICIENT
             <=> \A f \in Formats : CalculateFormatEfficiency(f, runs) <= 0)
     /\ format = INEFFICIENT =>
          /\ pc \in {"generateRLETable", "failed"}
          /\ pc = "failed" => err = Inefficient
          /\ outLen = 0
          /\ outData = <<>>

\* C6 witness: deflateFile has failed with Inefficient on an input that has
\* a run but no format that saves anything on it.
InefficientSentinelWitness ==
  /\ pc = "failed"
  /\ err = Inefficient
  /\ format = INEFFICIENT
  /\ runs # <<>>
  /\ \E f \in Formats : efficiencies[f] < 0

\* No four consecutive bytes of data are equal.
NoLongSpan(data) ==
  \A c \in Cuts(data) : \A j \in 0..SizeOfNode8x8 :
     LET k == c - j
     IN  (k >= 0 /\ k + SizeOfNode8x8 < Size(data)) =>
            \E d \in 1..SizeOfNode8x8 : ByteAt(data, k + d) # ByteAt(data, k)

\* C7: on an input without a constant span of more than 3 bytes, the empty
\* input included, the collector returns no run, the four savings are 0, and
\* deflateFile ends with the Inefficient error and no output file.
NoRunsIsInefficient ==
  NoLongSpan(inData) =>
     /\ runs = <<>>
     /\ pc \notin {"deflateFile", "collectRuns", "selectFormat"} =>
          \A f \in Formats : efficiencies[f] = 0
     /\ pc \in {"failed", "generateRLETable"} => format = INEFFICIENT
     /\ pc = "failed" => err = Inefficient
     /\ pc \in {"deflateFile", "collectRuns", "selectFormat", "selectLoop",
                "generateRLETable", "failed"}
     /\ outLen = 0

\* C8: the output of deflateFile starts with 'R', 'L', 'E' and the magic
\* byte of the selected format, carries the input size and the number of
\* nodes of the table, and holds the nodes of the table from offset 16 on.
HeaderContents ==
  pc = "deflated" =>
     /\ ByteAt(outData, 0) = 82
     /\ ByteAt(outData, 1) = 76
     /\ ByteAt(outData, 2) = 69
     /\ ByteAt(outData, 3) = FormatByte(format)
     /\ ByteAt(outData, 3) \in {17, 18, 33, 34}
     /\ HeaderDecompressedLength(outData) = Size(inData)
     /\ HeaderTableNodeCount(outData) = Len(table)
     /\ \A i \in 1..Len(table) :
          NodeAt(format, outData, SizeOfHeader + (i - 1) * SizeOfNode(format))
            = table[i]

\* C8 witness: a finished deflate of an input of more than 65536 bytes with
\* at least two nodes in the table.
HeaderContentsWitness ==
  /\ pc = "deflated"
  /\ ~ub
  /\ Size(inData) > 65536
  /\ Len(table) >= 2
  /\ format = "P16L16"

\* The bytes of data outside the runs rs[i..], read from offset pos on.
RECURSIVE OutsideRuns(_, _, _, _)
OutsideRuns(data, rs, i, pos) ==
  IF i > Len(rs) THEN Slice(data, pos, Size(data))
  ELSE Slice(data, pos, pos + rs[i].prefix)
         \o OutsideRuns(data, rs, i + 1, pos + rs[i].prefix + rs[i].length)

\* C9: the bytes of the output of deflateFile after the table are the input
\* bytes outside the runs of the collector, in input order.
VerbatimStream ==
  pc = "deflated" =>
     SameBytes(Slice(outData, SizeOfHeader + nodeCount * SizeOfNode(format), outLen),
               OutsideRuns(inData, runs, 1, 0))

\* C10: every run recorded by collectRuns is longer than 3 bytes.
RunThreshold ==
  \A i \in 1..Len(runs) : runs[i].length > 3

\* C10 witness: collectRuns has returned on an input that starts with a
\* constant span of exactly 3 bytes followed by a longer one; the span of 3
\* is the prefix of the one recorded run.
RunThresholdWitness ==
  /\ pc = "selectFormat"
  /\ Size(inData) > 3
  /\ ByteAt(inData, 1) = ByteAt(inData, 0)
  /\ ByteAt(inData, 2) = ByteAt(inData, 0)
  /\ ByteAt(inData, 3) # ByteAt(inData, 0)
  /\ Len(runs) = 1
  /\ runs[1].prefix = 3

\* The offset just past run i of a run list (0 for i = 0), and the offset at
\* which run i starts: pos_i = pos_{i-1} + length_{i-1} + prefix_i.
RECURSIVE RunTail(_, _)
RunTail(rs, i) ==
  IF i = 0 THEN 0 ELSE RunTail(rs, i - 1) + rs[i].prefix + rs[i].length

RunPosition(rs, i) == RunTail(rs, i - 1) + rs[i].prefix

\* C11: when collectRuns has returned, every run lies inside the input at the
\* position its prefix gives, covers bytes all equal to its value, cannot be
\* extended on either side, and no four equal consecutive bytes are left
\* between the runs or after the last run.
CollectorPositions ==
  pc = "selectFormat" =>
     /\ \A i \in 1..Len(runs) :
          LET pos == RunPosition(runs, i)
              tail == RunTail(runs, i)
          IN  /\ runs[i].length > 0
              /\ tail <= Size(inData)
              /\ SameBytes(Slice(inData, pos, tail),
                           Fill(runs[i].value, runs[i].length))
              /\ pos > 0 => ByteAt(inData, pos - 1) # runs[i].value
              /\ tail < Size(inData) => ByteAt(inData, tail) # runs[i].value
              /\ NoLongSpan(Slice(inData, RunTail(runs, i - 1), pos))
     /\ NoLongSpan(Slice(inData, RunTail(runs, Len(runs)), Size(inData)))

\* C11 witness: collectRuns has returned three runs, the second after a gap
\* and the third directly behind the second, with bytes left after the third.
CollectorPositionsWitness ==
  /\ pc = "selectFormat"
  /\ Len(runs) = 3
  /\ runs[2].prefix > 0
  /\ runs[3].prefix = 0
  /\ RunTail(runs, 3) < Size(inData)

\* C12: once inflateFile has acted on a file whose first three bytes are not
\* "RLE", it has failed with the error of checkMagic, no table record has
\* been interpreted and no output file has been created or written.
BadMagic ==
  (pc # "inflateFile" /\ BytesAt(outData, 0, 3) # <<82, 76, 69>>) =>
     /\ pc = "failed"
     /\ err = "Attempted to reinflate a non RLE file."
     /\ logicalRuns = <<>>
     /\ infLen = 0
     /\ infData = <<>>

\* C12 witness: inflateFile has failed on a file whose first byte is 'X'.
BadMagicWitness ==
  /\ pc = "failed"
  /\ ByteAt(outData, 0) = 88
  /\ err = "Attempted to reinflate a non RLE file."

\* C13: once inflateFile has acted on a file with the magic "RLE" and a
\* format byte other than 0x11, 0x12, 0x21 and 0x22, it has failed with the
\* error of extractTableByFormat, no table record has been interpreted and
\* no output file has been created.
BadFormat ==
  (/\ pc # "inflateFile"
   /\ BytesAt(outData, 0, 3) = <<82, 76, 69>>
   /\ ByteAt(outData, 3) \notin {17, 18, 33, 34}) =>
     /\ pc = "failed"
     /\ err = "Failed to switch by format type."
     /\ infFormat = "UNKNOWN"
     /\ logicalRuns = <<>>
     /\ infLen = 0
     /\ infData = <<>>

\* C13 witness: inflateFile has failed on a file with the magic "RLE", the
\* format byte 0x23 and a table of two records.
BadFormatWitness ==
  /\ pc = "failed"
  /\ BytesAt(outData, 0, 4) = <<82, 76, 69, 35>>
  /\ HeaderTableNodeCount(outData) = 2
  /\ err = "Failed to switch by format type."

\* C14: while inflateFile works on a file whose table extractTable reads
\* within bounds, no copy reads beyond the compressed file and no copy or
\* fill writes beyond the output file, and inflateFile only returns normally
\* when every prefix lay inside the compressed file and the bytes written
\* are exactly decompressedLength.
LengthMismatch ==
  (/\ infFormat \in Formats
   /\ ~ExtractTable(infFormat, outData, SizeOfHeader,
                    HeaderTableNodeCount(outData)).ub) =>
     /\ ub = FALSE
     /\ pc # "crashed"
     /\ pc = "inflated" => (inIter = outLen /\ outIter = infLen)

\* C15: once the constructor of RLETable has acted on more than 2^32 - 1
\* nodes, deflate has failed with "RLE table too large."; a table is only
\* constructed with a node count equal to the number of its nodes.
InputTooLarge ==
  /\ (pc # "RLETable" /\ LimbsGreater(nodesSize, UInt32Max, 4)) =>
        (pc = "failed" /\ err = "RLE table too large.")
  /\ pc = "generated" => castCount = nodesSize

\* C15 witness: the constructor has failed on exactly 2^32 nodes, whose
\* converted count is 0.
InputTooLargeWitness ==
  /\ pc = "failed"
  /\ nodesSize = <<0, 0, 1, 0>>
  /\ castCount = <<0, 0, 0, 0>>
  /\ err = "RLE table too large."

\* The number of runs in the blocks before block i.
RECURSIVE BlockStart(_, _)
BlockStart(blocks, i) ==
  IF i <= 1 THEN 0 ELSE BlockStart(blocks, i - 1) + Len(blocks[i - 1])

\* C16: the four blocks of generateRLETable are consecutive pieces of the run
\* list that together cover it, the nodes joined so far are those of
\* parseRun applied in order to the runs of the blocks joined so far, and
\* the nodes handed to the RLETable are those of parseRun applied in order
\* to all runs, whatever the order in which the workers returned.
ParallelBuildPreservesOrder ==
  pc \in {"join", "RLETable", "generated"} =>
     /\ Len(runBlocks) = ThreadCount
     /\ \A i \in 1..ThreadCount :
          runBlocks[i] = SubSeq(runs, BlockStart(runBlocks, i) + 1,
                                BlockStart(runBlocks, i + 1))
     /\ BlockStart(runBlocks, ThreadCount + 1) = Len(runs)
     /\ table = ParseRunSet(format, SubSeq(runs, 1, BlockStart(runBlocks, futIdx)))
     /\ pc # "join" => table = ParseRunSet(format, runs)

\* C16 witness: a table has been built from five runs (not a multiple of
\* four) with the workers returning in the reverse order of their blocks.
ParallelBuildPreservesOrderWitness ==
  /\ pc = "generated"
  /\ Len(runs) = 5
  /\ completed = <<4, 3, 2, 1>>
  /\ Len(table) > Len(runs)

\* C17 as stated: for 300 bytes 0x00 followed by 0x61 0x62, collectRuns
\* yields the single run {0, 300}, P8L16 is selected and the table is a
\* signal node with prefix 0 followed by a long node of length 300.
ScenarioS3SignalLong ==
  (pc = "createOutput" /\ inData = Fill(0, 300) \o Bytes(<<97, 98>>)) =>
     /\ runs = <<Run(0, 300, 0)>>
     /\ format = "P8L16"
     /\ table = <<BeSignalNode("P8L16", 0), BeLongNode("P8L16", 300, 0).node>>

\* C17 amended: for that input collectRuns yields the single run {0, 300},
\* P8L16 is selected (saving 296 against 294 for P8L8) and the table is the
\* single standard node {prefix 0, length 300, value 0x00}.
ScenarioS3 ==
  (pc = "createOutput" /\ inData = Fill(0, 300) \o Bytes(<<97, 98>>)) =>
     /\ runs = <<Run(0, 300, 0)>>
     /\ efficiencies["P8L16"] = 296
     /\ efficiencies["P8L8"] = 294
     /\ format = "P8L16"
     /\ table = <<Node(0, 300, 0)>>

\* C17 witness: the table of that input has been generated.
ScenarioS3Witness ==
  /\ pc = "createOutput"
  /\ inData = Fill(0, 300) \o Bytes(<<97, 98>>)
  /\ nodeCount = 1

\* C18 as stated: for 1000 bytes 0x41, P8L8 is selected, the table is a
\* signal node with prefix 0 followed by a long node of length 1000, and
\* decompressedLength in the header is 1000.
ScenarioS1P8L8 ==
  (pc = "deflated" /\ inData = Fill(65, 1000)) =>
     /\ format = "P8L8"
     /\ table = <<BeSignalNode("P8L8", 0), BeLongNode("P8L8", 1000, 65).node>>
     /\ HeaderDecompressedLength(outData) = 1000

\* C18 amended: for that input P8L16 is selected (saving 996 against 994 for
\* P8L8), the table is the single standard node {prefix 0, length 1000,
\* value 0x41}, and decompressedLength in the header is 1000.
ScenarioS1 ==
  (pc = "deflated" /\ inData = Fill(65, 1000)) =>
     /\ runs = <<Run(0, 1000, 65)>>
     /\ efficiencies["P8L16"] = 996
     /\ efficiencies["P8L8"] = 994
     /\ format = "P8L16"
     /\ table = <<Node(0, 1000, 65)>>
     /\ NodeAt("P8L16", outData, SizeOfHeader) = Node(0, 1000, 65)
     /\ HeaderTableNodeCount(outData) = 1
     /\ HeaderDecompressedLength(outData) = 1000

\* C18 witness: that input has been deflated into 20 bytes.
ScenarioS1Witness ==
  /\ pc = "deflated"
  /\ inData = Fill(65, 1000)
  /\ outLen = 20

\* C19: for 10 bytes 0x00, 5 bytes 0xAA and 300000 bytes 0x11, selectFormat
\* returns P8L16 or P16L16.
ScenarioS5 ==
  (/\ pc = "generateRLETable"
   /\ inData = Fill(0, 10) \o Fill(170, 5) \o Fill(17, 300000)) =>
     format \in {"P8L16", "P16L16"}

\* Whether a file consists of more than three copies of one byte.
UniformInput(data) ==
  Len(data) = 1 /\ SegConstant(data[1]) /\ Size(data) > SizeOfNode8x8

\* C20 as stated: a deflated input of L > 3 identical bytes has the single
\* run {0, L} and the output is the header and the table only.
UniformOutputIsTable ==
  (pc = "deflated" /\ UniformInput(inData)) =>
     /\ runs = <<Run(0, Size(inData), ByteAt(inData, 0))>>
     /\ outLen = SizeOfHeader + nodeCount * SizeOfNode(format)

\* C20 amended: a deflated input of L > 3 identical bytes has the single run
\* {0, L}; the output is the header, the table and the r bytes of the run
\* that the nodes of the table do not express, where r is at most the node
\* size, and r = 0 when L fits the length field of the format.
UniformOutput ==
  (pc = "deflated" /\ UniformInput(inData)) =>
     LET ex == ExtractTable(format, outData, SizeOfHeader, nodeCount).runs
         r == Size(inData) - RunTail(ex, Len(ex))
     IN  /\ runs = <<Run(0, Size(inData), ByteAt(inData, 0))>>
         /\ r >= 0
         /\ r <= SizeOfNode(format)
         /\ Size(inData) <= LengthMax(format) => r = 0
         /\ outLen = SizeOfHeader + nodeCount * SizeOfNode(format) + r
         /\ SameBytes(Slice(outData, outLen - r, outLen),
                      Fill(ByteAt(inData, 0), r))

\* C20 witness: 65536 identical bytes have been deflated into a header, the
\* two nodes of a P8L8 table and one verbatim byte.
UniformOutputWitness ==
  /\ pc = "deflated"
  /\ inData = Fill(65, 65536)
  /\ format = "P8L8"
  /\ nodeCount = 2
  /\ outLen = 23

\* C21: once deflateFile has asked for the view getView(0, inMap.size()) of
\* an empty file, a view length of zero, the call has not failed.
ZeroLengthViewSpansToEnd ==
  (pc # "deflateFile" /\ Size(inData) = 0) =>
     (pc # "failed" /\ err = "none")

\* C22: in every format, each run of the list (all longer than 3 bytes, as
\* collectRuns records them) whose length fits the length field gets a
\* standard node of that length from parseRun, and the estimator counts the
\* length of the run.
DegeneracyThresholdMatches ==
  pc = "compared" =>
     \A f \in Formats : \A i \in 1..Len(runs) :
        (runs[i].length > SizeOfNode8x8 /\ runs[i].length <= LengthMax(f)) =>
           LET nodes == ParseRun(f, runs[i], <<>>)
           IN  /\ Len(nodes) >= 1
               /\ nodes[Len(nodes)].length = runs[i].length
               /\ CalculateRunEfficiencyByFormat(f, runs[i])
                    = runs[i].length - Len(nodes) * SizeOfNode(f)


\* The gap that the reader takes from the skip nodes nodes[i..]: the sum of
\* getSkipLength() over the records with length 0 and a value other than 0.
RECURSIVE SkippedBy(_, _, _)
SkippedBy(f, nodes, i) ==
  IF i > Len(nodes) THEN 0
  ELSE (IF nodes[i].length = 0 /\ nodes[i].value # 0
        THEN GetSkipLength(f, nodes[i]) ELSE 0) + SkippedBy(f, nodes, i + 1)

\* C23: in every format, each skip node that parseRun pushes for a prefix
\* above PrefixMax has length 0 and a value other than 0, beSkipNode returns
\* the smaller of the prefix and maxSkipLength, and getSkipLength() of the
\* node is what was returned; the skip lengths pushed so far plus the prefix
\* left make the prefix of the run throughout the first loop and when it is
\* left, beSkipNode never throws, every pass takes at least one byte off the
\* prefix, which never goes below 0, and the loop is left with a prefix of at
\* most PrefixMax.
SkipNodeEncoding ==
  /\ pc # "failed"
  /\ curPrefix >= 0
  /\ (pc = "skipLoop" \/ (pc = "longLoop" /\ curLength = runs[1].length)) =>
        SkippedBy(format, table, 1) + curPrefix = runs[1].prefix
  /\ (pc = "skipLoop" /\ table # <<>>) =>
        LET n == table[Len(table)]
            totalGap == curPrefix + returned
        IN  /\ totalGap > PrefixMax(format)
            /\ returned > 0
            /\ n.length = 0
            /\ n.value # 0
            /\ returned = (IF totalGap < MaxSkipLength(format)
                           THEN totalGap ELSE MaxSkipLength(format))
            /\ GetSkipLength(format, n) = returned
  /\ pc = "longLoop" => curPrefix <= PrefixMax(format)

\* Two saturated skip nodes were pushed and a gap of one byte is left.
SkipNodeEncodingWitness ==
  /\ pc = "longLoop"
  /\ Len(table) = 2
  /\ table[2].value = ByteMax
  /\ curPrefix = 1

\* C24: in every format, each long node that parseRun pushes for a length above
\* LengthMax stores the value of the run, beLongNode returns the smaller of
\* the length and maxLongLength, and getLongLength() of the node is what was
\* returned.
LongNodeEncoding ==
  (pc = "longLoop" /\ curLength < runs[1].length) =>
     LET n == table[Len(table)]
         totalLen == curLength + returned
     IN  /\ totalLen > LengthMax(format)
         /\ returned = (IF totalLen < MaxLongLength(format)
                        THEN totalLen ELSE MaxLongLength(format))
         /\ n.value = runs[1].value
         /\ GetLongLength(format, n) = returned
         /\ curLength >= 0

\* A saturated long node was pushed and more of the run is left.
LongNodeEncodingWitness ==
  /\ pc = "longLoop"
  /\ table # <<>>
  /\ returned = MaxLongLength(format)
  /\ curLength > LengthMax(format)
  /\ table[Len(table)] = Node(PrefixMax(format), LengthMax(format), 65)

\* C25: in every format, the nodes that parseRun appends for a run are, in this
\* order, skip nodes (some only if the prefix exceeds PrefixMax), pairs of a
\* signal node and a long node carrying the value of the run (some only if
\* the length exceeds LengthMax), and a standard node holding the length left
\* and the value, present exactly when the length left after the long nodes
\* exceeds sizeof(NodeType).
NodeSequenceOrder ==
  pc = "parsed" =>
     LET t == IF curLength > SizeOfNode(format) THEN 1 ELSE 0
         n == Len(table)
     IN  \E k \in 0..n : \E m \in 0..n :
            /\ n = k + 2 * m + t
            /\ k > 0 => runs[1].prefix > PrefixMax(format)
            /\ m > 0 => runs[1].length > LengthMax(format)
            /\ \A i \in 1..k : table[i].length = 0 /\ table[i].value # 0
            /\ \A j \in 1..m :
                  /\ table[k + 2 * j - 1].length = 0
                  /\ table[k + 2 * j - 1].value = 0
                  /\ table[k + 2 * j].value = runs[1].value
            /\ SkippedBy(format, SubSeq(table, 1, k), 1) + curPrefix
                  = runs[1].prefix
            /\ t = 1 => /\ table[n].length = curLength
                        /\ table[n].length # 0
                        /\ table[n].value = runs[1].value

\* A run that got skip nodes and pairs of signal and long nodes, and whose
\* length left after the long nodes is too short for a standard node.
NodeSequenceOrderWitness ==
  /\ pc = "parsed"
  /\ runs[1].prefix > MaxSkipLength(format)
  /\ runs[1].length > MaxLongLength(format)
  /\ curLength \in 1..SizeOfNode(format)
  /\ Len(table) >= 4
  /\ table[Len(table)].length = LengthMax(format)

\* The gaps of the logical runs rs[i..], added up.
RECURSIVE GapTotal(_, _)
GapTotal(rs, i) ==
  IF i > Len(rs) THEN 0 ELSE rs[i].prefix + GapTotal(rs, i + 1)

\* C26: in every format, for a run longer than maxLongLength, every signal
\* node after the first one and the standard node that parseRun pushed carry
\* prefix 0, and the gaps of the logical runs that extractTable reads from the
\* nodes add up to the prefix of the run.
PrefixEncodedOnce ==
  (pc = "extracted" /\ runs[1].length > MaxLongLength(format)) =>
     LET signals == {i \in 1..Len(table) :
                       table[i].length = 0 /\ table[i].value = 0}
         first == CHOOSE i \in signals : \A j \in signals : i <= j
     IN  /\ signals # {}
         /\ \A i \in (first + 2)..Len(table) :
               (i - first) % 2 = 0 => table[i].prefix = 0
         /\ GapTotal(logicalRuns, 1) = runs[1].prefix

\* C27: in every format, for a run with a length above sizeof(NodeType) and of
\* at most maxLongLength, extractTable reads from the nodes that parseRun
\* built exactly one logical run, with the prefix, length and value of the
\* run.
RunRoundTrip ==
  (/\ pc = "extracted"
   /\ runs[1].length > SizeOfNode(format)
   /\ runs[1].length <= MaxLongLength(format)) =>
     logicalRuns = <<runs[1]>>

\* C28: at every step of deflateData over the table that deflateFile built,
\* the input cursor is at most the size of the input, also after a node's
\* gap and length were added, the output cursor is at most compressedLength,
\* each copy of a gap stays inside both views, and the final copy of the
\* rest of the input is over a valid range that fits the output.
DeflateCursorBounds ==
  pc \in {"deflateData", "deflated"} =>
     /\ inIter <= Size(inData)
     /\ outIter <= outLen
     /\ (pc = "deflateData" /\ nodeIdx <= nodesLen /\ ~longNode) =>
           CopyInRange(NodePrefix(format, CurNode))
     /\ (pc = "deflateData" /\ nodeIdx > nodesLen) => TailInRange

\* C29: once inflateFile has run extractTable over the nodeCount records of a
\* file, whatever they are, extractTable has read only records of the table
\* and has returned after one pass over them.
ExtractionInBounds ==
  (pc \in {"inflateCreate", "crashed"} /\ infFormat \in Formats) =>
     ~ExtractTable(infFormat, outData, SizeOfHeader,
                   HeaderTableNodeCount(outData)).ub

\* The role that extractTable and deflateData give to each of nodes[i..]: a
\* record with length 0 is a signal node if its value is 0 and a skip node
\* otherwise, the record after a signal node is its long node, and any other
\* record is a standard node.
RECURSIVE ReaderRoles(_, _)
ReaderRoles(nodes, i) ==
  IF i > Len(nodes) THEN <<>>
  ELSE IF nodes[i].length = 0
       THEN IF nodes[i].value = 0
            THEN IF i + 1 > Len(nodes) THEN <<"Signal">>
                 ELSE <<"Signal", "Long">> \o ReaderRoles(nodes, i + 2)
            ELSE <<"Skip">> \o ReaderRoles(nodes, i + 1)
       ELSE <<"Standard">> \o ReaderRoles(nodes, i + 1)

\* C30: in every format, the nodes that parseRun built for a run are read in
\* the roles they were pushed in: the nodes pushed by the first loop as skip
\* nodes (length 0, value not 0), the pairs pushed by the second loop as a
\* signal node and its long node, the node pushed last as a standard node
\* (length not 0), and the last record is never read as a signal node.
RolesWellFormed ==
  pc = "parsed" =>
     LET n == Len(table)
         t == IF curLength > SizeOfNode(format) THEN 1 ELSE 0
         m == IF runs[1].length = curLength THEN 0
              ELSE (runs[1].length - curLength - 1) \div MaxLongLength(format) + 1
         k == n - 2 * m - t
         pushed == [i \in 1..n |->
                      IF i <= k THEN "Skip"
                      ELSE IF i > k + 2 * m THEN "Standard"
                      ELSE IF (i - k) % 2 = 1 THEN "Signal" ELSE "Long"]
         read == ReaderRoles(table, 1)
     IN  /\ k >= 0
         /\ read = pushed
         /\ \A i \in 1..n :
               /\ read[i] = "Skip" => table[i].length = 0 /\ table[i].value # 0
               /\ read[i] = "Standard" => table[i].length # 0
               /\ read[i] = "Signal" => i < n /\ read[i + 1] = "Long"

\* The nodes of a run end with a long node that has length 0 and value 0, the
\* look of a signal node, after a skip node and a signal node.
RolesWellFormedWitness ==
  /\ pc = "parsed"
  /\ Len(table) = 3
  /\ table[1].value # 0
  /\ table[2] = Node(1, 0, 0)
  /\ table[3] = Node(1, 0, 0)
====
